---- MODULE Spec2Model ----
(***************************************************************************)
(* LSHost (src/server/lsHost.ts): the per-file caches of module-name and   *)
(* type-reference-directive resolutions, their reuse and invalidation, and *)
(* the recording of files whose resolutions changed.                       *)
(*                                                                         *)
(* An optional value (T | undefined) is a sequence of length 0 or 1.       *)
(* A specifier is the sequence of its characters.  A Map or FileMap is a   *)
(* function whose DOMAIN is the set of keys present.                       *)
(***************************************************************************)
EXTENDS Naturals, Sequences, FiniteSets, TLC

\* ---------------------------------------------------------------- bounds
\* Number of host calls and environment changes explored from construction.
MaxSteps == 4

\* ------------------------------------------------------- optional values
Undefined == <<>>
Some(x) == <<x>>
IsDefined(o) == o # Undefined
ValueOf(o) == o[1]

\* ---------------------------------------------------------------- inputs
\* Specifiers: "a" is non-relative, "./b" is relative.
NameA == <<"a">>
NameB == <<".", "/", "b">>
Names == {NameA, NameB}

\* Batches of specifiers handed to one resolution call.
Batches == { <<NameA>>, <<NameA, NameB, NameA>> }

F1 == "/f1.ts"
F2 == "/f2.ts"
T == "/t.ts"
G == "/typings/a.d.ts"
GlobalTypingsCacheLocation == "/typings"

\* Files resolution is requested for.
ContainingFiles == {F1, F2}

\* toPath(fileName, currentDirectory, getCanonicalFileName): the files of the
\* model are absolute, normalized and lower-case, which toPath maps to themselves.
toPath(fileName) == fileName

\* ScriptInfo: the file name as given and its Path.
ScriptInfo(fileName) == [fileName |-> fileName, path |-> toPath(fileName)]
ScriptInfos == { ScriptInfo(f) : f \in {F1, F2, T} }

\* CompilerOptions: moduleResolution affects resolution, noEmit does not.
OptClassic == [moduleResolution |-> "classic", noEmit |-> FALSE]
OptClassicNoEmit == [moduleResolution |-> "classic", noEmit |-> TRUE]
OptNode == [moduleResolution |-> "node", noEmit |-> FALSE]
CompilerOptions == {OptClassic, OptClassicNoEmit, OptNode}

\* changesAffectModuleResolution(oldOptions, newOptions)
changesAffectModuleResolution(oldOptions, newOptions) ==
    \/ ~IsDefined(oldOptions)
    \/ ValueOf(oldOptions).moduleResolution # newOptions.moduleResolution

\* ------------------------------------------------------ resolution records
ResolvedModule(fileName, ext) == Some([resolvedFileName |-> fileName, extension |-> ext])
ModuleRecord(resolved, failed) == [resolvedModule |-> resolved, failedLookupLocations |-> failed]
ResolvedDirective(fileName) == Some([resolvedFileName |-> fileName, primary |-> TRUE])
DirectiveRecord(resolved, failed) ==
    [resolvedTypeReferenceDirective |-> resolved, failedLookupLocations |-> failed]

\* What a call of an external resolver does: returns a record, returns
\* undefined, or throws.
Returns(rec) == [tag |-> "record", rec |-> Some(rec)]
ReturnsUndefined == [tag |-> "undefined", rec |-> Undefined]
Throws == [tag |-> "throws", rec |-> Undefined]

\* ------------------------------------------------- file-system snapshots
\* What the external resolvers answer for each specifier: resolveModuleName
\* (primary), loadModuleFromGlobalCache (typings), resolveTypeReferenceDirective
\* (directive), and whether the project's type acquisition is enabled.
World1 ==   \* neither module exists
    [ primary   |-> [n \in Names |-> IF n = NameA
                        THEN Returns(ModuleRecord(Undefined, <<"/a.ts">>))
                        ELSE Returns(ModuleRecord(Undefined, <<"/b.ts">>))],
      typings   |-> [n \in Names |-> Returns(ModuleRecord(Undefined, <<"/typings/x">>))],
      directive |-> [n \in Names |-> IF n = NameA
                        THEN Returns(DirectiveRecord(Undefined, <<"/a.d.ts">>))
                        ELSE Returns(DirectiveRecord(Undefined, <<"/b.d.ts">>))],
      typeAcquisition |-> FALSE ]
World2 ==   \* "a" is /t.ts, "./b" is /f2.ts
    [ primary   |-> [n \in Names |-> IF n = NameA
                        THEN Returns(ModuleRecord(ResolvedModule(T, "ts"), <<>>))
                        ELSE Returns(ModuleRecord(ResolvedModule(F2, "ts"), <<>>))],
      typings   |-> [n \in Names |-> Returns(ModuleRecord(Undefined, <<"/typings/x">>))],
      directive |-> [n \in Names |-> IF n = NameA
                        THEN Returns(DirectiveRecord(ResolvedDirective(T), <<>>))
                        ELSE Returns(DirectiveRecord(ResolvedDirective(F2), <<>>))],
      typeAcquisition |-> FALSE ]
World3 ==   \* "a" is /f2.ts, "./b" is not found and no location was probed
    [ primary   |-> [n \in Names |-> IF n = NameA
                        THEN Returns(ModuleRecord(ResolvedModule(F2, "ts"), <<>>))
                        ELSE Returns(ModuleRecord(Undefined, <<>>))],
      typings   |-> [n \in Names |-> Returns(ModuleRecord(Undefined, <<"/typings/x">>))],
      directive |-> [n \in Names |-> IF n = NameA
                        THEN Returns(DirectiveRecord(ResolvedDirective(F2), <<>>))
                        ELSE Returns(DirectiveRecord(Undefined, <<>>))],
      typeAcquisition |-> FALSE ]
World4 ==   \* "a" is found in the typings only; the resolvers fail for "./b"
    [ primary   |-> [n \in Names |-> IF n = NameA
                        THEN Returns(ModuleRecord(Undefined, <<"/a.ts">>))
                        ELSE ReturnsUndefined],
      typings   |-> [n \in Names |-> IF n = NameA
                        THEN Returns(ModuleRecord(ResolvedModule(G, "dts"), <<"/typings/a.ts">>))
                        ELSE Returns(ModuleRecord(Undefined, <<"/typings/x">>))],
      directive |-> [n \in Names |-> IF n = NameA
                        THEN Returns(DirectiveRecord(ResolvedDirective(T), <<>>))
                        ELSE Throws],
      typeAcquisition |-> TRUE ]
Worlds == {World1, World2, World3, World4}

\* Snapshots for the module loader alone: every combination of what the primary
\* resolver answers (not found, a .ts file, a .js file, a .d.ts file), what the
\* typings lookup does (finds the module, finds nothing, throws) and whether type
\* acquisition is enabled.
PrimaryOutcomes ==
    { Returns(ModuleRecord(Undefined, <<"/a.ts">>)),
      Returns(ModuleRecord(ResolvedModule(T, "ts"), <<>>)),
      Returns(ModuleRecord(ResolvedModule("/a.js", "js"), <<"/a.ts">>)),
      Returns(ModuleRecord(ResolvedModule("/a.d.ts", "dts"), <<"/a.ts">>)) }
TypingsOutcomes ==
    { Returns(ModuleRecord(ResolvedModule(G, "dts"), <<"/typings/a.ts">>)),
      Returns(ModuleRecord(Undefined, <<"/typings/x">>)),
      Throws }
LoaderWorlds ==
    { [ primary   |-> [n \in Names |-> IF n = NameA THEN p ELSE q],
        typings   |-> [n \in Names |-> t],
        directive |-> [n \in Names |-> Returns(DirectiveRecord(Undefined, <<"/a.d.ts">>))],
        typeAcquisition |-> e ] :
      p \in PrimaryOutcomes, q \in PrimaryOutcomes, t \in TypingsOutcomes, e \in BOOLEAN }

\* The file system when the host is constructed.
InitialWorlds == {World1, World2}

\* ------------------------------------------------------------------ state
VARIABLES
    compilationSettings,                     \* CompilerOptions | undefined
    sourceFileToResolvedModuleNames,         \* FileMap<Map<ResolvedModuleWithFailedLookupLocations>>
    resolvedTypeReferenceDirectives,         \* FileMap<Map<ResolvedTypeReferenceDirectiveWithFailedLookupLocations>>
    moduleResolutionCache,                   \* the shared cache: module name -> resolved file | undefined
    filesWithChangedSetOfUnresolvedImports,  \* Path[] | undefined
    lastDeletedFile,                         \* project.projectService.lastDeletedFile
    world,                                   \* what the external resolvers answer now
    last,                                    \* the last call: its arguments, what it returned, what it read
    steps

vars == << compilationSettings, sourceFileToResolvedModuleNames, resolvedTypeReferenceDirectives,
           moduleResolutionCache, filesWithChangedSetOfUnresolvedImports, lastDeletedFile,
           world, last, steps >>

\* ------------------------------------------------------ Map and FileMap
EmptyMap == <<>>
MapGet(map, key) == IF key \in DOMAIN map THEN Some(map[key]) ELSE Undefined
MapSet(map, key, value) == [k \in (DOMAIN map) \cup {key} |-> IF k = key THEN value ELSE map[k]]
MapRemove(map, key) == [k \in (DOMAIN map) \ {key} |-> map[k]]

\* ------------------------------------------------------------ the loaders
isRootedDiskPath(name) == Len(name) >= 1 /\ name[1] = "/"

isExternalModuleNameRelative(name) ==
    \/ name = <<".">>
    \/ name = <<".", ".">>
    \/ Len(name) >= 2 /\ name[1] = "." /\ name[2] = "/"
    \/ Len(name) >= 3 /\ name[1] = "." /\ name[2] = "." /\ name[3] = "/"

moduleHasNonRelativeName(moduleName) ==
    ~(isRootedDiskPath(moduleName) \/ isExternalModuleNameRelative(moduleName))

extensionIsTypeScript(ext) == ext \in {"ts", "tsx", "dts"}

\* Mutant: the failed lookup locations of the typings come first.
resolveModuleNameTypingsFirst(moduleName, primaryOutcome, globalCache, typingsOutcome) ==
    IF primaryOutcome.tag = "throws" THEN Throws
    ELSE IF ~moduleHasNonRelativeName(moduleName) THEN primaryOutcome
    ELSE IF primaryOutcome.tag = "undefined" THEN Throws
    ELSE LET primaryResult == ValueOf(primaryOutcome.rec)
             typeScript == /\ IsDefined(primaryResult.resolvedModule)
                           /\ extensionIsTypeScript(ValueOf(primaryResult.resolvedModule).extension)
         IN  IF ~typeScript /\ IsDefined(globalCache)
             THEN IF typingsOutcome.tag # "record" THEN Throws
                  ELSE LET second == ValueOf(typingsOutcome.rec)
                       IN  IF IsDefined(second.resolvedModule)
                           THEN Returns(ModuleRecord(second.resolvedModule,
                                    second.failedLookupLocations \o primaryResult.failedLookupLocations))
                           ELSE primaryOutcome
             ELSE primaryOutcome

\* Mutant: the typings are consulted for relative names too.
resolveModuleNameAnyName(moduleName, primaryOutcome, globalCache, typingsOutcome) ==
    IF primaryOutcome.tag # "record" THEN Throws
    ELSE LET primaryResult == ValueOf(primaryOutcome.rec)
             typeScript == /\ IsDefined(primaryResult.resolvedModule)
                           /\ extensionIsTypeScript(ValueOf(primaryResult.resolvedModule).extension)
         IN  IF ~typeScript /\ IsDefined(globalCache)
             THEN IF typingsOutcome.tag # "record" THEN Throws
                  ELSE LET second == ValueOf(typingsOutcome.rec)
                       IN  IF IsDefined(second.resolvedModule)
                           THEN Returns(ModuleRecord(second.resolvedModule,
                                    primaryResult.failedLookupLocations \o second.failedLookupLocations))
                           ELSE primaryOutcome
             ELSE primaryOutcome

\* this.resolveModuleName, the closure of the constructor.  primaryOutcome is what
\* resolveModuleName did, typingsOutcome what loadModuleFromGlobalCache does if
\* called, globalCache the typings location or undefined.
resolveModuleName(moduleName, primaryOutcome, globalCache, typingsOutcome) ==
    IF primaryOutcome.tag = "throws" THEN Throws
    ELSE IF ~moduleHasNonRelativeName(moduleName) THEN primaryOutcome
    ELSE IF primaryOutcome.tag = "undefined" THEN Throws   \* primaryResult.resolvedModule of undefined
    ELSE LET primaryResult == ValueOf(primaryOutcome.rec)
             typeScript == /\ IsDefined(primaryResult.resolvedModule)
                           /\ extensionIsTypeScript(ValueOf(primaryResult.resolvedModule).extension)
         IN  IF ~typeScript /\ IsDefined(globalCache)
             THEN IF typingsOutcome.tag # "record" THEN Throws
                  ELSE LET second == ValueOf(typingsOutcome.rec)
                       IN  IF IsDefined(second.resolvedModule)
                           THEN Returns(ModuleRecord(second.resolvedModule,
                                    primaryResult.failedLookupLocations \o second.failedLookupLocations))
                           ELSE primaryOutcome
             ELSE primaryOutcome

\* The loader of each kind, answering from the file-system snapshot w.
loader(kind, name, w) ==
    IF kind = "module"
    THEN resolveModuleName(name, w.primary[name],
             IF w.typeAcquisition THEN Some(GlobalTypingsCacheLocation) ELSE Undefined,
             w.typings[name])
    ELSE w.directive[name]

\* The shared cache after the primary resolver ran for a module name: it keeps
\* what a non-relative name resolved to.
cacheAfterResolve(cache, kind, name, w) ==
    IF kind = "module" /\ moduleHasNonRelativeName(name) /\ w.primary[name].tag = "record"
    THEN LET r == ValueOf(w.primary[name].rec).resolvedModule
         IN  MapSet(cache, name, IF IsDefined(r) THEN ValueOf(r).resolvedFileName ELSE "")
    ELSE cache

createModuleResolutionCache == EmptyMap

\* ModuleResolutionCache.removeFile(path)
removeFile(cache, path) == [k \in {n \in DOMAIN cache : cache[n] # path} |-> cache[k]]

\* ------------------------------------------- resolveNamesWithLocalCache
getResult(kind, s) ==
    IF kind = "module" THEN s.resolvedModule ELSE s.resolvedTypeReferenceDirective

getResultFileName(result) == result.resolvedFileName

\* oldResolution, newResolution: T | undefined
resolutionIsEqualTo(kind, oldResolution, newResolution) ==
    IF oldResolution = newResolution THEN TRUE
    ELSE IF ~IsDefined(oldResolution) \/ ~IsDefined(newResolution) THEN FALSE
    ELSE LET oldResult == getResult(kind, ValueOf(oldResolution))
             newResult == getResult(kind, ValueOf(newResolution))
         IN  IF oldResult = newResult THEN TRUE
             ELSE IF ~IsDefined(oldResult) \/ ~IsDefined(newResult) THEN FALSE
             ELSE getResultFileName(ValueOf(oldResult)) = getResultFileName(ValueOf(newResult))

\* Mutant: a record with a resolved file is valid whatever was deleted.
cachedModuleResolutionIsValidWhateverDeleted(kind, resolution, lastDeletedFileName) ==
    IF ~IsDefined(resolution) THEN FALSE
    ELSE LET result == getResult(kind, ValueOf(resolution))
         IN  IF IsDefined(result) THEN TRUE
             ELSE Len(ValueOf(resolution).failedLookupLocations) = 0

\* Mutant: a record without a result is never valid.
cachedModuleResolutionIsValidOnlyWithResult(kind, resolution, lastDeletedFileName) ==
    IF ~IsDefined(resolution) THEN FALSE
    ELSE LET result == getResult(kind, ValueOf(resolution))
         IN  IF IsDefined(result)
             THEN Some(getResultFileName(ValueOf(result))) # lastDeletedFileName
             ELSE FALSE

\* Mutant: a record with a result is valid unless its file was ever deleted
\* (here: unless it is /t.ts, whatever the last deleted file is).
cachedModuleResolutionIsValidRemembersDeleted(kind, resolution, lastDeletedFileName) ==
    IF ~IsDefined(resolution) THEN FALSE
    ELSE LET result == getResult(kind, ValueOf(resolution))
         IN  IF IsDefined(result)
             THEN /\ Some(getResultFileName(ValueOf(result))) # lastDeletedFileName
                  /\ (IsDefined(lastDeletedFileName) => getResultFileName(ValueOf(result)) # T)
             ELSE Len(ValueOf(resolution).failedLookupLocations) = 0

\* resolution: T | undefined; lastDeletedFileName: string | undefined
cachedModuleResolutionIsValid(kind, resolution, lastDeletedFileName) ==
    IF ~IsDefined(resolution) THEN FALSE
    ELSE LET result == getResult(kind, ValueOf(resolution))
         IN  IF IsDefined(result)
             THEN Some(getResultFileName(ValueOf(result))) # lastDeletedFileName
             ELSE Len(ValueOf(resolution).failedLookupLocations) = 0

\* Mutant: the loaded resolution is not kept for the rest of the batch.
storeLoadedForgets(newResolutions, name, resolution) == newResolutions

\* newResolutions.set(name, resolution) after a load
storeLoaded(newResolutions, name, resolution) == MapSet(newResolutions, name, resolution)

\* Mutant: a reused resolution is stored like a loaded one.
storeReusedKeeps(newResolutions, name, resolution) == MapSet(newResolutions, name, resolution)

\* newResolutions after an existing resolution was reused: nothing is stored
storeReused(newResolutions, name, resolution) == newResolutions

\* Mutant: logChanges is not reset after the push.
logChangesKept(logChanges) == logChanges

\* logChanges after the file was pushed
logChangesAfterPush(logChanges) == FALSE

\* The body of the loop for one name.  cx: what the batch read before the loop;
\* st: newResolutions, resolvedModules, logChanges, the recorded files, the shared
\* cache, the names the loader was called for, and whether the batch threw.
resolveName(cx, name, st) ==
    LET inBatch == MapGet(st.newResolutions, name)
    IN
    IF IsDefined(inBatch)
    THEN [st EXCEPT !.resolvedModules = Append(@, getResult(cx.kind, ValueOf(inBatch)))]
    ELSE
    LET existingResolution ==
            IF IsDefined(cx.currentResolutionsInFile)
            THEN MapGet(ValueOf(cx.currentResolutionsInFile), name)
            ELSE Undefined
        valid == cachedModuleResolutionIsValid(cx.kind, existingResolution, cx.lastDeletedFileName)
        outcome == IF valid THEN Returns(ValueOf(existingResolution)) ELSE loader(cx.kind, name, cx.world)
        resolution == outcome.rec
        st1 == IF valid
               THEN [st EXCEPT !.newResolutions = storeReused(@, name, ValueOf(resolution))]
               ELSE [st EXCEPT !.loads = Append(@, name),
                               !.moduleResolutionCache = cacheAfterResolve(@, cx.kind, name, cx.world),
                               !.newResolutions = IF IsDefined(resolution)
                                                  THEN storeLoaded(@, name, ValueOf(resolution))
                                                  ELSE @]
    IN
    IF outcome.tag = "throws" THEN [st1 EXCEPT !.threw = TRUE]
    ELSE
    LET push == /\ st1.logChanges
                /\ IsDefined(st1.filesWithChangedSetOfUnresolvedImports)
                /\ ~resolutionIsEqualTo(cx.kind, existingResolution, resolution)
        st2 == IF push
               THEN [st1 EXCEPT !.filesWithChangedSetOfUnresolvedImports =
                                     Some(Append(ValueOf(@), cx.path)),
                                !.logChanges = logChangesAfterPush(@)]
               ELSE st1
    IN
    IF ~IsDefined(resolution) THEN [st2 EXCEPT !.threw = TRUE]    \* ts.Debug.assert
    ELSE [st2 EXCEPT !.resolvedModules = Append(@, getResult(cx.kind, ValueOf(resolution)))]

RECURSIVE resolveLoop(_, _, _)
resolveLoop(cx, i, st) ==
    IF i > Len(cx.names) \/ st.threw THEN st
    ELSE resolveLoop(cx, i + 1, resolveName(cx, cx.names[i], st))

\* Mutant: the new table replaces the whole cache, not the file's entry.
replaceAllResolutions(sourceFileCache, path, newResolutions) == [k \in {path} |-> newResolutions]

\* sourceFileCache.set(path, newResolutions)
replaceResolutions(sourceFileCache, path, newResolutions) == MapSet(sourceFileCache, path, newResolutions)

\* Mutant: the new table is installed although the loop threw.
resolveNamesWithLocalCacheInstallingAlways(names, containingFile, sourceFileCache, kind, logChanges, recorded, sharedCache, deleted, w) ==
    LET path == toPath(containingFile)
        cx == [ kind |-> kind, names |-> names, path |-> path,
                currentResolutionsInFile |-> MapGet(sourceFileCache, path),
                lastDeletedFileName |->
                    IF IsDefined(deleted) THEN Some(ValueOf(deleted).fileName) ELSE Undefined,
                world |-> w ]
        st0 == [ newResolutions |-> EmptyMap, resolvedModules |-> <<>>,
                 logChanges |-> logChanges,
                 filesWithChangedSetOfUnresolvedImports |-> recorded,
                 moduleResolutionCache |-> sharedCache,
                 loads |-> <<>>, threw |-> FALSE ]
        st == resolveLoop(cx, 1, st0)
    IN  [ sourceFileCache |-> replaceResolutions(sourceFileCache, path, st.newResolutions),
          filesWithChangedSetOfUnresolvedImports |-> st.filesWithChangedSetOfUnresolvedImports,
          moduleResolutionCache |-> st.moduleResolutionCache,
          resolvedModules |-> IF st.threw THEN <<>> ELSE st.resolvedModules,
          loads |-> st.loads,
          threw |-> st.threw,
          path |-> path,
          currentResolutionsInFile |-> cx.currentResolutionsInFile,
          lastDeletedFileName |-> cx.lastDeletedFileName ]

\* The whole call, from the state it reads: the per-kind cache, the recorded
\* files, the shared cache, the last deleted file and the file system.  Returns
\* the new cache, recorded files and shared cache, and what the caller and the
\* loader saw.
resolveNamesWithLocalCache(names, containingFile, sourceFileCache, kind, logChanges, recorded, sharedCache, deleted, w) ==
    LET path == toPath(containingFile)
        cx == [ kind |-> kind, names |-> names, path |-> path,
                currentResolutionsInFile |-> MapGet(sourceFileCache, path),
                lastDeletedFileName |->
                    IF IsDefined(deleted) THEN Some(ValueOf(deleted).fileName) ELSE Undefined,
                world |-> w ]
        st0 == [ newResolutions |-> EmptyMap, resolvedModules |-> <<>>,
                 logChanges |-> logChanges,
                 filesWithChangedSetOfUnresolvedImports |-> recorded,
                 moduleResolutionCache |-> sharedCache,
                 loads |-> <<>>, threw |-> FALSE ]
        st == resolveLoop(cx, 1, st0)
    IN  [ sourceFileCache |-> IF st.threw THEN sourceFileCache
                              ELSE replaceResolutions(sourceFileCache, path, st.newResolutions),
          filesWithChangedSetOfUnresolvedImports |-> st.filesWithChangedSetOfUnresolvedImports,
          moduleResolutionCache |-> st.moduleResolutionCache,
          resolvedModules |-> IF st.threw THEN <<>> ELSE st.resolvedModules,
          loads |-> st.loads,
          threw |-> st.threw,
          path |-> path,
          currentResolutionsInFile |-> cx.currentResolutionsInFile,
          lastDeletedFileName |-> cx.lastDeletedFileName ]

\* ------------------------------------------------ the record of the last call
\* The record is what a caller or a test observes of a call: its arguments, what
\* it returned, what the loader was called for, and what the call read (the
\* file's previous table, the last deleted file, the recorded files, the options
\* and the caches before it).  previous is the call before it.  An operation of
\* the environment is recorded like a call.
NoPrevious ==
    [ op |-> "none", containingFile |-> "", names |-> <<>>, resolvedModules |-> <<>>,
      threw |-> FALSE, arg |-> "", optionsBefore |-> Undefined, options |-> Undefined,
      tablesBefore |-> 0, deletedBefore |-> Undefined ]

Summary(call) ==
    [ op |-> call.op, containingFile |-> call.containingFile, names |-> call.names,
      resolvedModules |-> call.resolvedModules, threw |-> call.threw, arg |-> call.arg,
      optionsBefore |-> call.optionsBefore, options |-> call.options,
      tablesBefore |-> call.tablesBefore, deletedBefore |-> call.deletedBefore ]

NoCall ==
    [ op |-> "none", containingFile |-> "", path |-> "", names |-> <<>>,
      resolvedModules |-> <<>>, loads |-> <<>>, threw |-> FALSE,
      currentResolutionsInFile |-> Undefined, lastDeletedFileName |-> Undefined,
      recordedBefore |-> Undefined, returned |-> Undefined,
      arg |-> "", optionsBefore |-> Undefined, options |-> Undefined, tablesBefore |-> 0,
      deletedBefore |-> Undefined,
      before |-> [ sourceFileToResolvedModuleNames |-> EmptyMap,
                   resolvedTypeReferenceDirectives |-> EmptyMap,
                   moduleResolutionCache |-> EmptyMap ],
      previous |-> NoPrevious ]

Call(op) ==
    [ NoCall EXCEPT !.op = op,
                    !.recordedBefore = filesWithChangedSetOfUnresolvedImports,
                    !.optionsBefore = compilationSettings,
                    !.deletedBefore = lastDeletedFile,
                    !.before = [ sourceFileToResolvedModuleNames |-> sourceFileToResolvedModuleNames,
                                 resolvedTypeReferenceDirectives |-> resolvedTypeReferenceDirectives,
                                 moduleResolutionCache |-> moduleResolutionCache ],
                    !.tablesBefore = Cardinality(DOMAIN sourceFileToResolvedModuleNames)
                                     + Cardinality(DOMAIN resolvedTypeReferenceDirectives),
                    !.previous = Summary(last) ]

\* ----------------------------------------------------------------- Init
Init ==
    /\ compilationSettings = Undefined
    /\ sourceFileToResolvedModuleNames = EmptyMap
    /\ resolvedTypeReferenceDirectives = EmptyMap
    /\ moduleResolutionCache = createModuleResolutionCache
    /\ filesWithChangedSetOfUnresolvedImports = Undefined
    /\ lastDeletedFile = Undefined
    /\ world \in InitialWorlds
    /\ last = NoCall
    /\ steps = 0

\* --------------------------------------------------------------- actions
startRecordingFilesWithChangedResolutions ==
    /\ steps < MaxSteps
    /\ filesWithChangedSetOfUnresolvedImports' = Some(<<>>)
    /\ last' = Call("startRecordingFilesWithChangedResolutions")
    /\ steps' = steps + 1
    /\ UNCHANGED << compilationSettings, sourceFileToResolvedModuleNames,
                    resolvedTypeReferenceDirectives, moduleResolutionCache, lastDeletedFile, world >>

\* Mutant: the recorded files are returned but recording goes on.
finishRecordingFilesWithChangedResolutionsRecordingOn ==
    /\ steps < MaxSteps
    /\ last' = [Call("finishRecordingFilesWithChangedResolutions") EXCEPT
                    !.returned = filesWithChangedSetOfUnresolvedImports]
    /\ steps' = steps + 1
    /\ UNCHANGED << compilationSettings, sourceFileToResolvedModuleNames,
                    resolvedTypeReferenceDirectives, moduleResolutionCache,
                    filesWithChangedSetOfUnresolvedImports, lastDeletedFile, world >>

finishRecordingFilesWithChangedResolutions ==
    /\ steps < MaxSteps
    /\ LET collected == filesWithChangedSetOfUnresolvedImports
       IN  /\ filesWithChangedSetOfUnresolvedImports' = Undefined
           /\ last' = [Call("finishRecordingFilesWithChangedResolutions") EXCEPT !.returned = collected]
    /\ steps' = steps + 1
    /\ UNCHANGED << compilationSettings, sourceFileToResolvedModuleNames,
                    resolvedTypeReferenceDirectives, moduleResolutionCache, lastDeletedFile, world >>

\* The record of a resolution call that did r.
Resolved(op, names, containingFile, r) ==
    [ Call(op) EXCEPT !.containingFile = containingFile, !.path = r.path, !.names = names,
                      !.resolvedModules = r.resolvedModules, !.loads = r.loads,
                      !.threw = r.threw,
                      !.currentResolutionsInFile = r.currentResolutionsInFile,
                      !.lastDeletedFileName = r.lastDeletedFileName ]

\* Mutant: type-reference-directive batches log changes too.
resolveTypeReferenceDirectivesLoggingChanges(typeDirectiveNames, containingFile) ==
    /\ steps < MaxSteps
    /\ LET r == resolveNamesWithLocalCache(typeDirectiveNames, containingFile,
                    resolvedTypeReferenceDirectives, "directive", TRUE,
                    filesWithChangedSetOfUnresolvedImports, moduleResolutionCache,
                    lastDeletedFile, world)
       IN  /\ resolvedTypeReferenceDirectives' = r.sourceFileCache
           /\ filesWithChangedSetOfUnresolvedImports' = r.filesWithChangedSetOfUnresolvedImports
           /\ moduleResolutionCache' = r.moduleResolutionCache
           /\ last' = Resolved("resolveTypeReferenceDirectives", typeDirectiveNames, containingFile, r)
    /\ steps' = steps + 1
    /\ UNCHANGED << compilationSettings, sourceFileToResolvedModuleNames, lastDeletedFile, world >>

resolveTypeReferenceDirectives(typeDirectiveNames, containingFile) ==
    /\ steps < MaxSteps
    /\ LET r == resolveNamesWithLocalCache(typeDirectiveNames, containingFile,
                    resolvedTypeReferenceDirectives, "directive", FALSE,
                    filesWithChangedSetOfUnresolvedImports, moduleResolutionCache,
                    lastDeletedFile, world)
       IN  /\ resolvedTypeReferenceDirectives' = r.sourceFileCache
           /\ filesWithChangedSetOfUnresolvedImports' = r.filesWithChangedSetOfUnresolvedImports
           /\ moduleResolutionCache' = r.moduleResolutionCache
           /\ last' = Resolved("resolveTypeReferenceDirectives", typeDirectiveNames, containingFile, r)
    /\ steps' = steps + 1
    /\ UNCHANGED << compilationSettings, sourceFileToResolvedModuleNames, lastDeletedFile, world >>

resolveModuleNames(moduleNames, containingFile) ==
    /\ steps < MaxSteps
    /\ LET r == resolveNamesWithLocalCache(moduleNames, containingFile,
                    sourceFileToResolvedModuleNames, "module", TRUE,
                    filesWithChangedSetOfUnresolvedImports, moduleResolutionCache,
                    lastDeletedFile, world)
       IN  /\ sourceFileToResolvedModuleNames' = r.sourceFileCache
           /\ filesWithChangedSetOfUnresolvedImports' = r.filesWithChangedSetOfUnresolvedImports
           /\ moduleResolutionCache' = r.moduleResolutionCache
           /\ last' = Resolved("resolveModuleNames", moduleNames, containingFile, r)
    /\ steps' = steps + 1
    /\ UNCHANGED << compilationSettings, resolvedTypeReferenceDirectives, lastDeletedFile, world >>

\* Mutant: only the module-name table of the file is removed.
notifyFileRemovedModuleNamesOnly(info) ==
    /\ steps < MaxSteps
    /\ sourceFileToResolvedModuleNames' = MapRemove(sourceFileToResolvedModuleNames, info.path)
    /\ moduleResolutionCache' = removeFile(moduleResolutionCache, info.path)
    /\ last' = [Call("notifyFileRemoved") EXCEPT !.arg = info.path]
    /\ steps' = steps + 1
    /\ UNCHANGED << compilationSettings, resolvedTypeReferenceDirectives,
                    filesWithChangedSetOfUnresolvedImports, lastDeletedFile, world >>

notifyFileRemoved(info) ==
    /\ steps < MaxSteps
    /\ sourceFileToResolvedModuleNames' = MapRemove(sourceFileToResolvedModuleNames, info.path)
    /\ resolvedTypeReferenceDirectives' = MapRemove(resolvedTypeReferenceDirectives, info.path)
    /\ moduleResolutionCache' = removeFile(moduleResolutionCache, info.path)
    /\ last' = [Call("notifyFileRemoved") EXCEPT !.arg = info.path]
    /\ steps' = steps + 1
    /\ UNCHANGED << compilationSettings, filesWithChangedSetOfUnresolvedImports, lastDeletedFile, world >>

\* Mutant: the type-reference-directive cache is not cleared.
setCompilationSettingsKeepingDirectives(opt) ==
    /\ steps < MaxSteps
    /\ LET affects == changesAffectModuleResolution(compilationSettings, opt)
       IN  /\ sourceFileToResolvedModuleNames' =
                  IF affects THEN EmptyMap ELSE sourceFileToResolvedModuleNames
           /\ moduleResolutionCache' =
                  IF affects THEN createModuleResolutionCache ELSE moduleResolutionCache
           /\ last' = [Call("setCompilationSettings") EXCEPT !.options = Some(opt)]
    /\ compilationSettings' = Some(opt)
    /\ steps' = steps + 1
    /\ UNCHANGED << resolvedTypeReferenceDirectives, filesWithChangedSetOfUnresolvedImports,
                    lastDeletedFile, world >>

setCompilationSettings(opt) ==
    /\ steps < MaxSteps
    /\ LET affects == changesAffectModuleResolution(compilationSettings, opt)
       IN  /\ sourceFileToResolvedModuleNames' =
                  IF affects THEN EmptyMap ELSE sourceFileToResolvedModuleNames
           /\ resolvedTypeReferenceDirectives' =
                  IF affects THEN EmptyMap ELSE resolvedTypeReferenceDirectives
           /\ moduleResolutionCache' =
                  IF affects THEN createModuleResolutionCache ELSE moduleResolutionCache
           /\ last' = [Call("setCompilationSettings") EXCEPT !.options = Some(opt)]
    /\ compilationSettings' = Some(opt)
    /\ steps' = steps + 1
    /\ UNCHANGED << filesWithChangedSetOfUnresolvedImports, lastDeletedFile, world >>

\* ----------------------------------------------------------- environment
\* The project service sets or resets its last deleted file.
ProjectSetsLastDeletedFile(deleted) ==
    /\ steps < MaxSteps
    /\ deleted # lastDeletedFile
    /\ lastDeletedFile' = deleted
    /\ last' = [Call("lastDeletedFile") EXCEPT
                    !.arg = IF IsDefined(deleted) THEN ValueOf(deleted).path ELSE ""]
    /\ steps' = steps + 1
    /\ UNCHANGED << compilationSettings, sourceFileToResolvedModuleNames,
                    resolvedTypeReferenceDirectives, moduleResolutionCache,
                    filesWithChangedSetOfUnresolvedImports, world >>

\* Files appear, move or disappear: the resolvers answer differently from now on.
FileSystemChanges(w) ==
    /\ steps < MaxSteps
    /\ w # world
    /\ world' = w
    /\ last' = Call("fileSystem")
    /\ steps' = steps + 1
    /\ UNCHANGED << compilationSettings, sourceFileToResolvedModuleNames,
                    resolvedTypeReferenceDirectives, moduleResolutionCache,
                    filesWithChangedSetOfUnresolvedImports, lastDeletedFile >>

Next ==
    \/ startRecordingFilesWithChangedResolutions
    \/ finishRecordingFilesWithChangedResolutions
    \/ \E names \in Batches, f \in ContainingFiles : resolveModuleNames(names, f)
    \/ \E names \in Batches, f \in ContainingFiles : resolveTypeReferenceDirectives(names, f)
    \/ \E info \in ScriptInfos : notifyFileRemoved(info)
    \/ \E opt \in CompilerOptions : setCompilationSettings(opt)
    \/ \E deleted \in {Undefined} \cup {Some(i) : i \in ScriptInfos} : ProjectSetsLastDeletedFile(deleted)
    \/ \E w \in Worlds : FileSystemChanges(w)

Spec == Init /\ [][Next]_vars

\* ------------------------------------------------ the module loader alone
\* The host over each combination of answers of the two module resolvers, with
\* module names resolved for its files and nothing else happening.
InitLoader ==
    /\ compilationSettings = Undefined
    /\ sourceFileToResolvedModuleNames = EmptyMap
    /\ resolvedTypeReferenceDirectives = EmptyMap
    /\ moduleResolutionCache = createModuleResolutionCache
    /\ filesWithChangedSetOfUnresolvedImports = Undefined
    /\ lastDeletedFile = Undefined
    /\ world \in LoaderWorlds
    /\ last = NoCall
    /\ steps = 0

NextLoader ==
    \E names \in Batches, f \in ContainingFiles : resolveModuleNames(names, f)

SpecLoader == InitLoader /\ [][NextLoader]_vars

\* ================================================================ claims
Range(seq) == { seq[i] : i \in 1..Len(seq) }
NoDuplicates(seq) == \A i, j \in 1..Len(seq) : i # j => seq[i] # seq[j]

ResolveOps == {"resolveModuleNames", "resolveTypeReferenceDirectives"}
IsResolve == last.op \in ResolveOps
Completed == IsResolve /\ ~last.threw
KindOfLast == IF last.op = "resolveModuleNames" THEN "module" ELSE "directive"
CacheOfLast ==
    IF last.op = "resolveModuleNames" THEN sourceFileToResolvedModuleNames
    ELSE resolvedTypeReferenceDirectives

\* The file name a result (R | undefined) resolved to, or undefined.
FileNameOf(result) ==
    IF IsDefined(result) THEN Some(ValueOf(result).resolvedFileName) ELSE Undefined

\* The record the file's previous table held for name, or undefined.
PriorRecord(name) ==
    IF IsDefined(last.currentResolutionsInFile)
    THEN MapGet(ValueOf(last.currentResolutionsInFile), name)
    ELSE Undefined

\* The file name the previous table's record for name resolved to, or undefined.
PriorFileName(name) ==
    IF IsDefined(PriorRecord(name))
    THEN FileNameOf(getResult(KindOfLast, ValueOf(PriorRecord(name))))
    ELSE Undefined

\* The last call repeats the call before it: same operation, file and batch,
\* and nothing between them.
RepeatsPrevious ==
    /\ Completed
    /\ last.previous.op = last.op
    /\ ~last.previous.threw
    /\ last.previous.containingFile = last.containingFile
    /\ last.previous.names = last.names

\* Every specifier of the repeated batch resolved to a file other than the last
\* deleted one: each record of the first call is one the validity check accepts.
PreviousAllReusable ==
    \A i \in 1..Len(last.previous.resolvedModules) :
        /\ IsDefined(last.previous.resolvedModules[i])
        /\ FileNameOf(last.previous.resolvedModules[i]) # last.lastDeletedFileName

\* C1 (idempotence): a batch repeated right after itself, with nothing deleted,
\* no settings change and the loader answering the same, returns the same results
\* as the first call and calls the loader zero times.  Stated for the batches
\* whose specifiers all resolve to a file that is not the last deleted one; the
\* code violates it already there.
C1_Idempotence ==
    (RepeatsPrevious /\ PreviousAllReusable) =>
        /\ last.resolvedModules = last.previous.resolvedModules
        /\ last.loads = <<>>

\* C2: after every completed batch the file's table has as its keys exactly the
\* distinct specifiers of the batch, reused ones included.
C2_TableKeysAreTheBatch ==
    Completed =>
        /\ last.path \in DOMAIN CacheOfLast
        /\ DOMAIN CacheOfLast[last.path] = Range(last.names)

\* C3 (duplicate suppression): within one batch the loader is called at most once
\* per distinct specifier, and all occurrences of a specifier get the same result.
C3_DuplicateSuppression ==
    /\ IsResolve => NoDuplicates(last.loads)
    /\ Completed =>
          /\ Len(last.resolvedModules) = Len(last.names)
          /\ \A i, j \in 1..Len(last.names) :
                last.names[i] = last.names[j] => last.resolvedModules[i] = last.resolvedModules[j]

\* C3 witness: a batch with a repeated specifier in which the loader was called
\* for it, once.
C3_Witness ==
    /\ Completed
    /\ last.names = <<NameA, NameB, NameA>>
    /\ last.loads = <<NameA, NameB>>

\* C4 as stated: a batch run right after notifyFileRemoved(P) calls the loader for
\* every specifier of the batch whose cached record resolved to P.
C4_NotifyFileRemovedInvalidates ==
    (Completed /\ last.previous.op = "notifyFileRemoved") =>
        \A x \in Range(last.names) :
            PriorFileName(x) = Some(last.previous.arg) => x \in Range(last.loads)

\* C4 as amended: a batch calls the loader for every specifier whose cached record
\* resolved to the file that is the project's last deleted file when the batch runs.
C4_LastDeletedFileInvalidates ==
    Completed =>
        \A x \in Range(last.names) :
            (IsDefined(PriorFileName(x)) /\ PriorFileName(x) = last.lastDeletedFileName)
                => x \in Range(last.loads)

\* C4 witness: the cached record of "a" resolved to the last deleted file, whose
\* removal was notified just before, and the loader was called for "a".
C4_Witness ==
    /\ Completed
    /\ PriorFileName(NameA) = Some(T)
    /\ last.lastDeletedFileName = Some(T)
    /\ NameA \in Range(last.loads)

\* Options that differ from the current ones in a resolution-affecting field.
ResolutionAffecting(old, new) ==
    /\ IsDefined(old)
    /\ IsDefined(new)
    /\ ValueOf(old).moduleResolution # ValueOf(new).moduleResolution

\* C5 (invalidation on settings change): after setCompilationSettings with a
\* resolution-affecting change both per-kind caches are empty, the shared cache is
\* a fresh one and the options are the new ones; the batch after it, for any file
\* and kind, finds no table and calls the loader for every distinct specifier.
C5_SettingsChangeInvalidates ==
    /\ (last.op = "setCompilationSettings" /\ ResolutionAffecting(last.optionsBefore, last.options)) =>
          /\ sourceFileToResolvedModuleNames = EmptyMap
          /\ resolvedTypeReferenceDirectives = EmptyMap
          /\ moduleResolutionCache = createModuleResolutionCache
          /\ compilationSettings = last.options
    /\ ( /\ Completed
         /\ last.previous.op = "setCompilationSettings"
         /\ ResolutionAffecting(last.previous.optionsBefore, last.previous.options) ) =>
          /\ ~IsDefined(last.currentResolutionsInFile)
          /\ Range(last.loads) = Range(last.names)

\* C5 witness: tables were cached, the module resolution strategy changed, and the
\* next batch loaded both of its specifiers.
C5_Witness ==
    /\ Completed
    /\ last.previous.op = "setCompilationSettings"
    /\ ResolutionAffecting(last.previous.optionsBefore, last.previous.options)
    /\ last.previous.tablesBefore > 0
    /\ last.names = <<NameA, NameB, NameA>>
    /\ last.loads = <<NameA, NameB>>

\* The result of the i-th specifier differs from its prior result: the previous
\* table held no record for it, or one resolved to another file (or to none).
Differs(i) ==
    \/ ~IsDefined(PriorRecord(last.names[i]))
    \/ PriorFileName(last.names[i]) # FileNameOf(last.resolvedModules[i])

\* C6 (one record per batch): while recording, a module-name batch appends its
\* file to the recorded files at most once, and exactly once when the result of
\* at least one specifier differs from its prior result.
C6_OneRecordPerBatch ==
    (last.op = "resolveModuleNames" /\ IsDefined(last.recordedBefore)) =>
        LET before == ValueOf(last.recordedBefore)
            appended == Some(Append(before, last.path))
        IN  /\ filesWithChangedSetOfUnresolvedImports \in {Some(before), appended}
            /\ (~last.threw /\ \E i \in 1..Len(last.names) : Differs(i))
                  => filesWithChangedSetOfUnresolvedImports = appended

\* C6 witness: both specifiers of the batch resolved to other files than before
\* and the file was appended once.
C6_Witness ==
    /\ last.op = "resolveModuleNames"
    /\ ~last.threw
    /\ IsDefined(last.recordedBefore)
    /\ last.names = <<NameA, NameB, NameA>>
    /\ IsDefined(PriorRecord(NameA)) /\ Differs(1)
    /\ IsDefined(PriorRecord(NameB)) /\ Differs(2)
    /\ filesWithChangedSetOfUnresolvedImports = Some(Append(ValueOf(last.recordedBefore), last.path))

\* C7: the recorded files never hold the same file twice, and neither does the
\* sequence finishRecordingFilesWithChangedResolutions returns.
C7_NoDuplicateFiles ==
    /\ IsDefined(filesWithChangedSetOfUnresolvedImports)
          => NoDuplicates(ValueOf(filesWithChangedSetOfUnresolvedImports))
    /\ (last.op = "finishRecordingFilesWithChangedResolutions" /\ IsDefined(last.returned))
          => NoDuplicates(ValueOf(last.returned))

\* C8: startRecordingFilesWithChangedResolutions called while recording fails and
\* leaves the recorded files as they were.
C8_StartWhileRecordingFails ==
    (last.op = "startRecordingFilesWithChangedResolutions" /\ IsDefined(last.recordedBefore)) =>
        /\ last.threw
        /\ filesWithChangedSetOfUnresolvedImports = last.recordedBefore

\* C9: finishRecordingFilesWithChangedResolutions called while not recording fails.
C9_FinishWhileNotRecordingFails ==
    (last.op = "finishRecordingFilesWithChangedResolutions" /\ ~IsDefined(last.recordedBefore)) =>
        last.threw

\* What a batch for file f would return and load in a state with these caches.
Outcome(kind, names, f, modules, directives, recorded, shared, deleted, w) ==
    LET r == resolveNamesWithLocalCache(names, f,
                 IF kind = "module" THEN modules ELSE directives, kind, kind = "module",
                 recorded, shared, deleted, w)
    IN  << r.resolvedModules, r.loads, r.threw >>

\* C10 (no cross-contamination): a batch for file F1 of one kind changes no
\* other file's table of that kind and no table of the other kind, and what the
\* next batch of any other file returns and loads is the same as if the batch for
\* F1 had not run.
C10_NoCrossContamination ==
    IsResolve =>
        /\ IF last.op = "resolveModuleNames"
           THEN /\ MapRemove(sourceFileToResolvedModuleNames, last.path)
                      = MapRemove(last.before.sourceFileToResolvedModuleNames, last.path)
                /\ resolvedTypeReferenceDirectives = last.before.resolvedTypeReferenceDirectives
           ELSE /\ MapRemove(resolvedTypeReferenceDirectives, last.path)
                      = MapRemove(last.before.resolvedTypeReferenceDirectives, last.path)
                /\ sourceFileToResolvedModuleNames = last.before.sourceFileToResolvedModuleNames
        /\ \A f \in ContainingFiles \ {last.containingFile}, names \in Batches,
              kind \in {"module", "directive"} :
              Outcome(kind, names, f, sourceFileToResolvedModuleNames,
                      resolvedTypeReferenceDirectives,
                      filesWithChangedSetOfUnresolvedImports, moduleResolutionCache,
                      lastDeletedFile, world)
                = Outcome(kind, names, f, last.before.sourceFileToResolvedModuleNames,
                          last.before.resolvedTypeReferenceDirectives,
                          last.recordedBefore, last.before.moduleResolutionCache,
                          lastDeletedFile, world)

\* C10 witness: a batch for /f1.ts completed while /f2.ts had a table of the same
\* kind and /f1.ts one of the other kind.
C10_Witness ==
    /\ last.op = "resolveModuleNames"
    /\ ~last.threw
    /\ last.path = F1
    /\ F2 \in DOMAIN sourceFileToResolvedModuleNames
    /\ F1 \in DOMAIN resolvedTypeReferenceDirectives

\* ------------------------------------------------------ the module loader
\* The record the last batch installed for a specifier it loaded.
Installed(x) == CacheOfLast[last.path][x]

PrimaryRecord(x) == ValueOf(world.primary[x].rec)
TypingsRecord(x) == ValueOf(world.typings[x].rec)

\* The primary resolution of x failed: it has no resolved module.
PrimaryFails(x) ==
    world.primary[x].tag = "record" /\ ~IsDefined(PrimaryRecord(x).resolvedModule)

\* The typings lookup of x succeeds.
TypingsSucceed(x) ==
    world.typings[x].tag = "record" /\ IsDefined(TypingsRecord(x).resolvedModule)

\* C11 (fallback ordering): for a non-relative specifier whose primary resolution
\* fails, with type acquisition enabled and the typings lookup succeeding, the
\* record the module loader returns has the resolved module of the typings and,
\* as failed lookup locations, those of the primary attempt followed by those of
\* the typings lookup.
C11_FallbackOrdering ==
    (last.op = "resolveModuleNames" /\ ~last.threw) =>
        \A x \in Range(last.loads) :
            ( /\ moduleHasNonRelativeName(x)
              /\ PrimaryFails(x)
              /\ world.typeAcquisition
              /\ TypingsSucceed(x) ) =>
                /\ Installed(x).resolvedModule = TypingsRecord(x).resolvedModule
                /\ Installed(x).failedLookupLocations =
                      PrimaryRecord(x).failedLookupLocations
                          \o TypingsRecord(x).failedLookupLocations
                /\ \A i \in 1..Len(last.names) :
                      last.names[i] = x =>
                          last.resolvedModules[i] = TypingsRecord(x).resolvedModule

\* C11 witness: "a" was not found by the primary resolver but in the typings, and
\* the loader returned the typings' file with both lists of failed locations.
C11_Witness ==
    /\ last.op = "resolveModuleNames"
    /\ ~last.threw
    /\ NameA \in Range(last.loads)
    /\ PrimaryFails(NameA)
    /\ world.typeAcquisition
    /\ TypingsSucceed(NameA)
    /\ Installed(NameA).failedLookupLocations = <<"/a.ts", "/typings/a.ts">>
    /\ FileNameOf(Installed(NameA).resolvedModule) = Some(G)

\* The three conditions under which the typings may be consulted for x.
FallbackAllowed(x) ==
    /\ moduleHasNonRelativeName(x)
    /\ world.primary[x].tag = "record"
    /\ \/ ~IsDefined(PrimaryRecord(x).resolvedModule)
       \/ ValueOf(PrimaryRecord(x).resolvedModule).extension \notin {"ts", "tsx", "dts"}
    /\ world.typeAcquisition

\* C18 (fallback gating): the module loader consults the typings only for a
\* non-relative specifier whose primary result has no resolved module or one
\* with no TypeScript extension, with type acquisition enabled: a typings lookup
\* that throws makes the loader throw in that case only.  In every other case,
\* and when the typings lookup finds nothing, the loader returns the primary
\* result unchanged.
C18_FallbackGating ==
    last.op = "resolveModuleNames" =>
        /\ (last.threw /\ Len(last.loads) > 0
                /\ world.primary[last.loads[Len(last.loads)]].tag = "record") =>
              /\ FallbackAllowed(last.loads[Len(last.loads)])
              /\ world.typings[last.loads[Len(last.loads)]].tag = "throws"
        /\ ~last.threw =>
              \A x \in Range(last.loads) :
                  (world.primary[x].tag = "record" /\ ~(FallbackAllowed(x) /\ TypingsSucceed(x)))
                      => Installed(x) = PrimaryRecord(x)

\* C18 witness: the relative "./b" was not found, type acquisition is enabled and
\* the typings lookup would throw; the loader returned the primary result.
C18_Witness ==
    /\ last.op = "resolveModuleNames"
    /\ ~last.threw
    /\ NameB \in Range(last.loads)
    /\ PrimaryFails(NameB)
    /\ world.typeAcquisition
    /\ world.typings[NameB].tag = "throws"
    /\ Installed(NameB) = PrimaryRecord(NameB)

\* ---------------------------------------------------- aborts and frames
\* C12 (no partial cache writes on abort): a batch that is aborted part-way, by
\* the loader throwing or by the assertion on an undefined record, leaves the
\* table of its file as it was before the batch, and every other table of both
\* caches too.
C12_NoPartialWritesOnAbort ==
    (IsResolve /\ last.threw) =>
        /\ sourceFileToResolvedModuleNames = last.before.sourceFileToResolvedModuleNames
        /\ resolvedTypeReferenceDirectives = last.before.resolvedTypeReferenceDirectives

\* C12 witness: the file had a table; the batch loaded "a", then failed on "./b".
C12_Witness ==
    /\ IsResolve
    /\ last.threw
    /\ IsDefined(last.currentResolutionsInFile)
    /\ last.loads = <<NameA, NameB>>
    /\ NameA \in DOMAIN ValueOf(last.currentResolutionsInFile)

\* The cache holds what it held before the last call, except for the table of file f.
SameButFor(cache, before, f) ==
    /\ f \notin DOMAIN cache
    /\ DOMAIN cache = (DOMAIN before) \ {f}
    /\ \A g \in DOMAIN cache : cache[g] = before[g]

\* C13: notifyFileRemoved for a file removes the file's table from the module-name
\* cache and from the type-reference-directive cache and leaves the tables of all
\* other files as they were; the batch of either kind run for the file right after
\* it finds no table and calls the loader for every distinct specifier.
C13_NotifyFileRemovedFrame ==
    /\ last.op = "notifyFileRemoved" =>
          /\ SameButFor(sourceFileToResolvedModuleNames,
                        last.before.sourceFileToResolvedModuleNames, last.arg)
          /\ SameButFor(resolvedTypeReferenceDirectives,
                        last.before.resolvedTypeReferenceDirectives, last.arg)
    /\ (Completed /\ last.previous.op = "notifyFileRemoved" /\ last.previous.arg = last.path) =>
          /\ ~IsDefined(last.currentResolutionsInFile)
          /\ Range(last.loads) = Range(last.names)

\* C13 witness: /f1.ts and /f2.ts had tables whose records are all reusable;
\* /f1.ts was removed, its table is gone and that of /f2.ts is not, and the next
\* batch for /f1.ts loaded both specifiers.
C13_Witness ==
    /\ Completed
    /\ world = World2
    /\ last.path = F1
    /\ last.previous.op = "notifyFileRemoved"
    /\ last.previous.arg = F1
    /\ last.previous.tablesBefore = 2
    /\ last.tablesBefore = 1
    /\ F2 \in DOMAIN sourceFileToResolvedModuleNames \cup DOMAIN resolvedTypeReferenceDirectives
    /\ last.names = <<NameA, NameB, NameA>>
    /\ last.loads = <<NameA, NameB>>

\* ------------------------------------------------------- change tracking
\* C14 (session scoping), as what each call does to the recorded files: start
\* makes them the empty sequence; finish returns them as they are and makes them
\* undefined; a batch run while they are undefined leaves them undefined; a
\* module-name batch run while recording keeps them or appends its file at the
\* end; no other call changes them.  Hence finish returns the files the
\* module-name batches since the last start recorded, in order, and the empty
\* sequence, not undefined, when none was recorded.
C14_SessionScoping ==
    /\ last.op = "startRecordingFilesWithChangedResolutions" =>
          filesWithChangedSetOfUnresolvedImports = Some(<<>>)
    /\ last.op = "finishRecordingFilesWithChangedResolutions" =>
          /\ last.returned = last.recordedBefore
          /\ filesWithChangedSetOfUnresolvedImports = Undefined
    /\ (IsResolve /\ ~IsDefined(last.recordedBefore)) =>
          filesWithChangedSetOfUnresolvedImports = Undefined
    /\ (last.op = "resolveModuleNames" /\ IsDefined(last.recordedBefore)) =>
          filesWithChangedSetOfUnresolvedImports \in
              { last.recordedBefore, Some(Append(ValueOf(last.recordedBefore), last.path)) }
    /\ last.op \notin { "startRecordingFilesWithChangedResolutions",
                        "finishRecordingFilesWithChangedResolutions",
                        "resolveModuleNames" } =>
          filesWithChangedSetOfUnresolvedImports = last.recordedBefore

\* C14 witness: finish returned the two files recorded since start, in the order
\* of their batches, and recording is off.
C14_Witness ==
    /\ last.op = "finishRecordingFilesWithChangedResolutions"
    /\ last.returned = Some(<<F2, F1>>)
    /\ filesWithChangedSetOfUnresolvedImports = Undefined

\* C15: a type-reference-directive batch leaves the recorded files as they were,
\* recording or not, results changed or not; the recorded files grow only in a
\* module-name batch.
C15_DirectivesNeverRecord ==
    /\ last.op = "resolveTypeReferenceDirectives" =>
          filesWithChangedSetOfUnresolvedImports = last.recordedBefore
    /\ ( /\ IsDefined(filesWithChangedSetOfUnresolvedImports)
         /\ IsDefined(last.recordedBefore)
         /\ Len(ValueOf(filesWithChangedSetOfUnresolvedImports)) > Len(ValueOf(last.recordedBefore)) )
          => last.op = "resolveModuleNames"

\* C15 witness: while recording, a type-reference-directive batch resolved "a" to
\* another file than the record of the previous table, and nothing was recorded.
C15_Witness ==
    /\ last.op = "resolveTypeReferenceDirectives"
    /\ ~last.threw
    /\ IsDefined(last.recordedBefore)
    /\ IsDefined(PriorRecord(NameA))
    /\ Differs(1)
    /\ filesWithChangedSetOfUnresolvedImports = last.recordedBefore

\* C16, for a module-name batch run right after the file's preceding batch: if
\* every specifier of the batch was requested by the preceding batch and resolves
\* to the same file name (or to none, as before), the file is not recorded.
C16_RecordedOnlyIfTargetDiffers ==
    ( /\ last.op = "resolveModuleNames"
      /\ ~last.threw
      /\ IsDefined(last.recordedBefore)
      /\ last.previous.op = "resolveModuleNames"
      /\ ~last.previous.threw
      /\ last.previous.containingFile = last.containingFile
      /\ \A i \in 1..Len(last.names) :
            \E j \in 1..Len(last.previous.names) :
                /\ last.previous.names[j] = last.names[i]
                /\ FileNameOf(last.previous.resolvedModules[j]) = FileNameOf(last.resolvedModules[i]) )
        => filesWithChangedSetOfUnresolvedImports = last.recordedBefore

\* ------------------------------------------------------------- validity
\* The record of the previous table for x has no result.
PriorNotFound(x) ==
    /\ IsDefined(PriorRecord(x))
    /\ ~IsDefined(getResult(KindOfLast, ValueOf(PriorRecord(x))))

\* C17 (validity of not-found records): a record of the previous table without a
\* resolved target is reused, the loader not being called, exactly when its list
\* of failed lookup locations is empty, whatever the last deleted file is; with a
\* non-empty list the loader is called in every batch that requests the specifier.
C17_NotFoundRecordValidity ==
    IsResolve =>
        \A x \in Range(last.names) :
            PriorNotFound(x) =>
                /\ ValueOf(PriorRecord(x)).failedLookupLocations = <<>>
                      => x \notin Range(last.loads)
                /\ (~last.threw /\ ValueOf(PriorRecord(x)).failedLookupLocations # <<>>)
                      => x \in Range(last.loads)

\* C17 witness: a file was deleted after "./b" was cached as not found with no
\* location probed; the batch reused that record and loaded no "./b".
C17_Witness ==
    /\ Completed
    /\ NameB \in Range(last.names)
    /\ PriorNotFound(NameB)
    /\ ValueOf(PriorRecord(NameB)).failedLookupLocations = <<>>
    /\ IsDefined(last.lastDeletedFileName)
    /\ NameB \notin Range(last.loads)

C20_OnlyLastDeletedFileCounts ==
    Completed =>
        /\ last.lastDeletedFileName = FileNameOf(IF IsDefined(lastDeletedFile)
                                                 THEN Some([resolvedFileName |-> ValueOf(lastDeletedFile).fileName])
                                                 ELSE Undefined)
        /\ \A x \in Range(last.names) :
              IsDefined(PriorFileName(x)) =>
                  (x \notin Range(last.loads) <=> PriorFileName(x) # last.lastDeletedFileName)
        /\ \A x \in Range(last.names) :
              ( /\ IsDefined(PriorFileName(x))
                /\ \/ /\ last.previous.op = "lastDeletedFile"
                      /\ IsDefined(last.previous.deletedBefore)
                      /\ PriorFileName(x) = Some(ValueOf(last.previous.deletedBefore).fileName)
                      /\ PriorFileName(x) # Some(last.previous.arg)
                   \/ /\ last.previous.op = "notifyFileRemoved"
                      /\ PriorFileName(x) = Some(last.previous.arg)
                      /\ PriorFileName(x) # last.lastDeletedFileName )
                  => x \notin Range(last.loads)

\* C20 witness: "a" was cached as /t.ts; /t.ts was deleted, then /f2.ts; the batch
\* reused the record of "a".
C20_Witness ==
    /\ Completed
    /\ PriorFileName(NameA) = Some(T)
    /\ last.previous.op = "lastDeletedFile"
    /\ last.previous.deletedBefore = Some(ScriptInfo(T))
    /\ last.previous.arg = F2
    /\ last.lastDeletedFileName = Some(F2)
    /\ NameA \in Range(last.names)
    /\ NameA \notin Range(last.loads)

====
